---- MODULE Spec2Model ----
(***************************************************************************)
(* Model of src/src/unifi_protect_event_manager.py: the event store of     *)
(* UnifiProtectEventManager (events, timers, event_lock), the request      *)
(* threads calling extend_event / cancel_event / status_event, the         *)
(* threading.Timer threads running execute_export (pop guard, retry loop,  *)
(* combine_videos).  Time is counted in minutes.                           *)
(*                                                                         *)
(* Spec follows the store: every step that reads or writes events, timers  *)
(* or event_lock, and the part of execute_export after the pop guard as    *)
(* one step (ExportFinish).  ExportSpec follows that part step by step     *)
(* (retry loop, combine_videos), for jobs that have just been popped; it   *)
(* touches neither events, timers nor event_lock.                          *)
(***************************************************************************)
EXTENDS Integers, Sequences, FiniteSets, TLC

\* ------------------------------------------------------------------ bounds
MaxTime == 2
MaxTimers == 3
NumCallers == 2
MaxJobs == 2

\* ------------------------------------------------------- program constants
DEFAULT_PAST_MINUTES == 5
DEFAULT_FUTURE_MINUTES == 5
MAX_RETRIES == 3

\* ------------------------------------------------------------------ inputs
Ids == {"a", "b"}
Callers == 1..NumCallers
\* the requests sent to extend_event; an optional argument is <<>> (None) or <<v>>
ExtendArgs ==
    { [past_minutes |-> <<>>, future_minutes |-> <<>>, cameras |-> "all"],
      [past_minutes |-> <<1>>, future_minutes |-> <<1>>, cameras |-> "front"] }
\* the identifier argument of status_event: <<>> is the no-identifier form
StatusArgs == {<<>>} \cup {<<i>> : i \in Ids}

VARIABLES
    now,                \* the wall clock read by current_time()
    events,             \* self.events: identifier -> window
    timers,             \* self.timers: identifier -> Timer handle (index of thr)
    event_lock,         \* holder of self.event_lock
    call,               \* the request threads
    returned,           \* what the call that returned last gave back
    thr,                \* the Timer threads, in creation order
    cancelled,          \* history: windows removed by cancel_event
    KEEP_SPLIT_FILES    \* configuration read at construction

vars == <<now, events, timers, event_lock, call, returned, thr, cancelled, KEEP_SPLIT_FILES>>

Free == <<"free", 0>>
CallerThread(c) == <<"caller", c>>
TimerThread(h) == <<"timer", h>>

Handles == 1..Len(thr)

\* ------------------------------------------------------------- dict helpers
EmptyDict == [x \in {} |-> 0]

\* a request thread: idle, inside extend_event after line 84 ("wait", with the
\* clock value it read), or stuck inside status_event ("in_cancel_event")
IdleCall == [pc |-> "idle", current_time |-> 0]

Without(d, k) == [x \in DOMAIN d \ {k} |-> d[x]]
With(d, k, v) == [x \in DOMAIN d \cup {k} |-> IF x = k THEN v ELSE d[x]]

Init ==
    /\ now = 0
    /\ events = EmptyDict
    /\ timers = EmptyDict
    /\ event_lock = Free
    /\ call = [c \in Callers |-> IdleCall]
    /\ returned = "none"
    /\ thr = <<>>
    /\ cancelled = {}
    /\ KEEP_SPLIT_FILES = TRUE      \* line 36: the default of UPEM_KEEP_SPLIT_FILES

\* ---------------------------------------------------------------- the clock
\* time passes; current_time() (line 72) reads now
Tick ==
    /\ now < MaxTime
    /\ now' = now + 1
    /\ UNCHANGED <<events, timers, event_lock, call, returned, thr, cancelled, KEEP_SPLIT_FILES>>

\* ------------------------------------------------------------ threading.Timer
\* no process has exited yet
NoCode == -1

\* Timer(delay, self.execute_export, args=[identifier]); timer.start()
NewTimer(identifier, delay, win) ==
    [identifier |-> identifier, deadline |-> now + delay, st |-> "waiting", win |-> win,
     start_time |-> 0, end_time |-> 0, cameras |-> "all", job_win |-> 0,
     attempt |-> 0, sleeps |-> 0, returncode |-> NoCode, report |-> "none",
     combines |-> 0, files |-> 0, originals |-> 0, manifest |-> FALSE, concat_rc |-> NoCode,
     error |-> "none"]

\* the locals of a Timer thread that are not read again
Forget(t) ==
    [t EXCEPT !.deadline = 0, !.start_time = 0, !.end_time = 0, !.cameras = "all",
              !.attempt = 0, !.sleeps = 0, !.returncode = NoCode, !.report = "none"]

\* Timer.cancel(): sets the finished flag; a thread still waiting exits without
\* calling its function, a thread that already passed the flag test is not stopped
TimerCancel(threads, h) ==
    IF threads[h].st = "waiting"
    THEN [threads EXCEPT ![h] = [Forget(@) EXCEPT !.st = "cancelled"]]
    ELSE threads

\* --------------------------------------------------------------- extend_event
new_past_minutes(past_minutes) ==
    IF past_minutes # <<>> THEN past_minutes[1] ELSE DEFAULT_PAST_MINUTES

new_future_minutes(future_minutes) ==
    IF future_minutes # <<>> THEN future_minutes[1] ELSE DEFAULT_FUTURE_MINUTES

\* line 84: current_time = self.current_time(), read before the lock is taken
ExtendRead(c) ==
    /\ call[c].pc = "idle"
    /\ Len(thr) + Cardinality({d \in Callers : call[d].pc = "wait"}) < MaxTimers
    /\ call' = [call EXCEPT ![c] = [pc |-> "wait", current_time |-> now]]
    /\ UNCHANGED <<now, events, timers, event_lock, returned, thr, cancelled, KEEP_SPLIT_FILES>>

\* mutant: an extension also moves start_time
ExtendedWindow_ResetStart(identifier, current_time, past_minutes, future_minutes, cameras) ==
    [start_time |-> current_time - new_past_minutes(past_minutes),
     end_time |-> current_time + new_future_minutes(future_minutes),
     cameras |-> cameras,
     win |-> IF identifier \in DOMAIN events THEN events[identifier].win ELSE Len(thr) + 1]

\* lines 97-116: the window after the call
ExtendedWindow(identifier, current_time, past_minutes, future_minutes, cameras) ==
    IF identifier \in DOMAIN events
    THEN [events[identifier] EXCEPT
            !.end_time = current_time + new_future_minutes(future_minutes),
            !.cameras = cameras]
    ELSE [start_time |-> current_time - new_past_minutes(past_minutes),
          end_time |-> current_time + new_future_minutes(future_minutes),
          cameras |-> cameras,
          win |-> Len(thr) + 1]

\* lines 98-100: the previous timer is cancelled only for a known identifier
ExtendCancelPrevious(identifier) ==
    IF identifier \in DOMAIN events /\ identifier \in DOMAIN timers
    THEN TimerCancel(thr, timers[identifier])
    ELSE thr

ExtendMessage(identifier) ==
    IF identifier \in DOMAIN events THEN "extended" ELSE "started"

\* lines 96-132: the lock is taken, the body runs and the lock is released; no
\* other thread can take a step on the store in between.  The arguments of the
\* call are read here for the first time.
ExtendBody(c, identifier, past_minutes, future_minutes, cameras) ==
    LET window == ExtendedWindow(identifier, call[c].current_time, past_minutes,
                                 future_minutes, cameras)
        delay == window.end_time - call[c].current_time
    IN  /\ call[c].pc = "wait"
        /\ event_lock = Free
        /\ events' = With(events, identifier, window)
        /\ thr' = Append(ExtendCancelPrevious(identifier),
                         NewTimer(identifier, delay, window.win))
        /\ timers' = With(timers, identifier, Len(thr) + 1)
        /\ call' = [call EXCEPT ![c] = IdleCall]
        /\ returned' = ExtendMessage(identifier)
        /\ UNCHANGED <<now, event_lock, cancelled, KEEP_SPLIT_FILES>>

\* --------------------------------------------------------------- cancel_event
\* mutant: the timer is cancelled but the entry stays
CancelEvents_Keep(identifier) == events

\* lines 136-145: the store after cancel_event
CancelEvents(identifier) ==
    IF identifier \in DOMAIN events THEN Without(events, identifier) ELSE events

\* mutant: the entry is removed but the timer handle stays
CancelTimers_Keep(identifier) == timers

CancelTimers(identifier) ==
    IF identifier \in DOMAIN events /\ identifier \in DOMAIN timers
    THEN Without(timers, identifier)
    ELSE timers

\* mutant: cancel_event also stops an export of the identifier that is running
CancelThreads_StopExport(identifier) ==
    [h \in Handles |->
        IF thr[h].identifier = identifier /\ thr[h].st \in {"waiting", "popped", "attempt"}
        THEN [Forget(thr[h]) EXCEPT !.st = "cancelled"]
        ELSE thr[h]]

CancelThreads(identifier) ==
    IF identifier \in DOMAIN events /\ identifier \in DOMAIN timers
    THEN TimerCancel(thr, timers[identifier])
    ELSE thr

\* lines 134-145, the whole call
CancelCall(c, identifier) ==
    /\ call[c].pc = "idle"
    /\ event_lock = Free
    /\ events' = CancelEvents(identifier)
    /\ timers' = CancelTimers(identifier)
    /\ thr' = CancelThreads(identifier)
    /\ cancelled' = IF identifier \in DOMAIN events
                    THEN cancelled \cup {events[identifier].win}
                    ELSE cancelled
    /\ returned' = "None"
    /\ UNCHANGED <<now, event_lock, call, KEEP_SPLIT_FILES>>

\* --------------------------------------------------------------- status_event
\* lines 152-155, 176-179: remaining_time = end_time - current_time(), read under the lock
remaining_time(identifier) == events[identifier].end_time - now

\* the identifiers status_event looks at: the one given, or every key of events
StatusScope(identifier) ==
    IF identifier # <<>> THEN {identifier[1]} \cap DOMAIN events ELSE DOMAIN events

\* lines 169, 187: status_event calls self.cancel_event while it holds event_lock
StatusCallsCancel(identifier) ==
    \E i \in StatusScope(identifier) : ~(remaining_time(i) > 0)

\* lines 156-167, 172, 180-185, 189: what is returned when nothing is expired:
\* the entry of the identifier, {status: "no_event"} for it, or every entry
StatusResult(identifier) ==
    IF identifier # <<>>
    THEN IF identifier[1] \in DOMAIN events THEN "event" ELSE "no_event"
    ELSE "events"

\* mutant: status_event on a stored identifier cancels its timer
StatusCall_CancelsTimer(c, identifier) ==
    /\ call[c].pc = "idle"
    /\ event_lock = Free
    /\ thr' = IF identifier # <<>> /\ identifier[1] \in DOMAIN timers
              THEN TimerCancel(thr, timers[identifier[1]])
              ELSE thr
    /\ returned' = StatusResult(identifier)
    /\ UNCHANGED <<now, events, timers, event_lock, call, cancelled, KEEP_SPLIT_FILES>>

\* lines 148-189.  cancel_event takes event_lock with `with self.event_lock:`
\* (line 135); threading.Lock is not reentrant, so the nested call made at
\* lines 169 and 187 waits for a lock its own thread holds: the thread stays at
\* "in_cancel_event" with the lock held, and no step of it is ever enabled.
StatusCall(c, identifier) ==
    /\ call[c].pc = "idle"
    /\ event_lock = Free
    /\ IF StatusCallsCancel(identifier)
       THEN /\ call' = [call EXCEPT ![c].pc = "in_cancel_event"]
            /\ event_lock' = CallerThread(c)
            /\ UNCHANGED returned
       ELSE /\ returned' = StatusResult(identifier)
            /\ UNCHANGED <<call, event_lock>>
    /\ UNCHANGED <<now, events, timers, thr, cancelled, KEEP_SPLIT_FILES>>

\* ------------------------------------------------------------- execute_export
\* Timer.run: the wait ended without the finished flag set, the callback is called
TimerFire(h) ==
    /\ thr[h].st = "waiting"
    /\ now >= thr[h].deadline
    /\ thr' = [thr EXCEPT ![h] = [Forget(@) EXCEPT !.st = "dispatched"]]
    /\ UNCHANGED <<now, events, timers, event_lock, call, returned, cancelled, KEEP_SPLIT_FILES>>

\* line 289: `with self.event_lock:` entered by the callback
ExportAcquire(h) ==
    /\ thr[h].st = "dispatched"
    /\ event_lock = Free
    /\ event_lock' = TimerThread(h)
    /\ thr' = [thr EXCEPT ![h].st = "locked"]
    /\ UNCHANGED <<now, events, timers, call, returned, cancelled, KEEP_SPLIT_FILES>>

\* mutant: the entry is read with get() and stays in the store
PopEvents_Keep(identifier) == events

\* line 290: self.events.pop(identifier, None)
PopEvents(identifier) ==
    IF identifier \in DOMAIN events THEN Without(events, identifier) ELSE events

\* mutant: the callback empties the timers map
PopTimers_Clear(identifier) == EmptyDict

\* lines 291-292
PopTimers(identifier) ==
    IF identifier \in DOMAIN timers THEN Without(timers, identifier) ELSE timers

\* lines 294-296: with no entry the callback returns, otherwise the job is the
\* popped entry
AfterPop(t, identifier) ==
    IF identifier \notin DOMAIN events
    THEN [t EXCEPT !.st = "returned"]
    ELSE [t EXCEPT !.st = "popped",
                   !.start_time = events[identifier].start_time,
                   !.end_time = events[identifier].end_time,
                   !.cameras = events[identifier].cameras,
                   !.job_win = events[identifier].win]

\* mutant: the export runs inside the with block, the lock is not released
ExportPop_HoldLock(h) ==
    /\ thr[h].st = "locked"
    /\ events' = PopEvents(thr[h].identifier)
    /\ timers' = PopTimers(thr[h].identifier)
    /\ thr' = [thr EXCEPT ![h] = AfterPop(thr[h], thr[h].identifier)]
    /\ UNCHANGED <<now, event_lock, call, returned, cancelled, KEEP_SPLIT_FILES>>

\* lines 289-296
ExportPop(h) ==
    /\ thr[h].st = "locked"
    /\ events' = PopEvents(thr[h].identifier)
    /\ timers' = PopTimers(thr[h].identifier)
    /\ thr' = [thr EXCEPT ![h] = AfterPop(thr[h], thr[h].identifier)]
    /\ event_lock' = Free
    /\ UNCHANGED <<now, call, returned, cancelled, KEEP_SPLIT_FILES>>

\* lines 298-343: the command is built from the job, which is not read again,
\* and the retry loop starts (for attempt in range(MAX_RETRIES))
AfterCommand(t) ==
    [Forget(t) EXCEPT !.st = IF MAX_RETRIES > 0 THEN "attempt" ELSE "combine",
                      !.report = IF MAX_RETRIES > 0 THEN "none" ELSE "failure"]

ExportStart(h) ==
    /\ thr[h].st = "popped"
    /\ thr' = [thr EXCEPT ![h] = AfterCommand(thr[h])]
    /\ UNCHANGED <<now, events, timers, event_lock, call, returned, cancelled, KEEP_SPLIT_FILES>>

\* mutant: the sleep is not skipped after the last attempt
AfterProcess_SleepAlways(t, returncode) ==
    IF returncode = 0
    THEN [t EXCEPT !.returncode = returncode, !.report = "success", !.st = "combine"]
    ELSE IF t.attempt < MAX_RETRIES - 1
    THEN [t EXCEPT !.returncode = returncode, !.sleeps = @ + 1, !.st = "sleep"]
    ELSE [t EXCEPT !.returncode = returncode, !.sleeps = @ + 1, !.report = "failure",
                   !.st = "combine"]

\* lines 361-378: the external process of the current attempt exited with
\* `returncode`: 0 breaks out of the loop; otherwise sleep when another attempt
\* follows, else the loop is exhausted and its else clause reports the failure
AfterProcess(t, returncode) ==
    IF returncode = 0
    THEN [t EXCEPT !.returncode = returncode, !.report = "success", !.st = "combine"]
    ELSE IF t.attempt < MAX_RETRIES - 1
    THEN [t EXCEPT !.returncode = returncode, !.sleeps = @ + 1, !.st = "sleep"]
    ELSE [t EXCEPT !.returncode = returncode, !.report = "failure", !.st = "combine"]

\* lines 345-367: Popen started the process, its output was read to the end,
\* process.wait() returned
ProcessExit(h, returncode) ==
    /\ thr[h].st = "attempt"
    /\ thr' = [thr EXCEPT ![h] = AfterProcess(thr[h], returncode)]
    /\ UNCHANGED <<now, events, timers, event_lock, call, returned, cancelled, KEEP_SPLIT_FILES>>

\* line 345: Popen raises OSError (FileNotFoundError, PermissionError) when the
\* program cannot be launched; line 369 catches subprocess.CalledProcessError
\* only, which is no superclass of OSError, so the exception leaves execute_export
AfterLaunchError(t) == [Forget(t) EXCEPT !.st = "died", !.error = "Popen"]

LaunchError(h) ==
    /\ thr[h].st = "attempt"
    /\ thr' = [thr EXCEPT ![h] = AfterLaunchError(thr[h])]
    /\ UNCHANGED <<now, events, timers, event_lock, call, returned, cancelled, KEEP_SPLIT_FILES>>

\* lines 350-359: the process neither exits nor closes its output; readline and
\* wait are called without a timeout and EXPORT_TIMEOUT (line 34) is read nowhere
ProcessHang(h) ==
    /\ thr[h].st = "attempt"
    /\ thr' = [thr EXCEPT ![h].st = "hung"]
    /\ UNCHANGED <<now, events, timers, event_lock, call, returned, cancelled, KEEP_SPLIT_FILES>>

\* line 376: time.sleep(RETRY_DELAY) returned, the next iteration starts
RetryWake(h) ==
    /\ thr[h].st = "sleep"
    /\ thr' = [thr EXCEPT ![h].attempt = @ + 1, ![h].st = "attempt"]
    /\ UNCHANGED <<now, events, timers, event_lock, call, returned, cancelled, KEEP_SPLIT_FILES>>

\* ------------------------------------------------------------- combine_videos
\* the number of clips of one camera the archive tool left in the target folder
FileCounts == {0, 1, 2}
\* how the ffmpeg run and the cleanup after it can end
ConcatOutcomes == {"exit_0", "exit_1", "launch_error", "remove_error"}

\* lines 196-253: list the folder; a group of more than one clip gets a manifest
\* (filelist.txt) and ffmpeg is run on it
AfterListing(t, n) ==
    IF n > 1
    THEN [Forget(t) EXCEPT !.combines = @ + 1, !.files = n, !.originals = n,
                           !.manifest = TRUE, !.st = "ffmpeg"]
    ELSE [Forget(t) EXCEPT !.combines = @ + 1, !.files = n, !.originals = n,
                           !.st = "done"]

\* line 384: self.combine_videos(target_folder)
CombineStart(h, n) ==
    /\ thr[h].st = "combine"
    /\ thr' = [thr EXCEPT ![h] = AfterListing(thr[h], n)]
    /\ UNCHANGED <<now, events, timers, event_lock, call, returned, cancelled, KEEP_SPLIT_FILES>>

\* lines 275-278: the originals are removed when KEEP_SPLIT_FILES is false; the
\* return code of subprocess.run (line 268) is not read
OriginalsAfterConcat(t, returncode) ==
    IF ~KEEP_SPLIT_FILES THEN 0 ELSE t.originals

\* lines 268-281: subprocess.run(concat_command) returned `returncode`
AfterConcat(t, returncode) ==
    [t EXCEPT !.concat_rc = returncode,
              !.originals = OriginalsAfterConcat(t, returncode),
              !.manifest = FALSE,
              !.st = "done"]

\* line 268 raises when ffmpeg cannot be launched, line 278 when a clip cannot
\* be removed: the exception leaves combine_videos before line 281
AfterConcatError(t, outcome) ==
    IF outcome = "launch_error"
    THEN [t EXCEPT !.st = "died", !.error = "ffmpeg"]
    ELSE [t EXCEPT !.st = "died", !.error = "remove"]

ConcatDone(h, outcome) ==
    /\ thr[h].st = "ffmpeg"
    /\ outcome = "remove_error" => ~KEEP_SPLIT_FILES
    /\ thr' = [thr EXCEPT ![h] =
          CASE outcome = "exit_0" -> AfterConcat(thr[h], 0)
            [] outcome = "exit_1" -> AfterConcat(thr[h], 1)
            [] OTHER -> AfterConcatError(thr[h], outcome)]
    /\ UNCHANGED <<now, events, timers, event_lock, call, returned, cancelled, KEEP_SPLIT_FILES>>

\* Timer.run ends: execute_export returned or raised, the thread is over
AfterExit(t) ==
    [Forget(t) EXCEPT !.st = "exited", !.combines = 0, !.files = 0, !.originals = 0,
                      !.manifest = FALSE, !.concat_rc = NoCode, !.error = "none"]

ThreadExit(h) ==
    /\ thr[h].st \in {"done", "died"}
    /\ thr' = [thr EXCEPT ![h] = AfterExit(thr[h])]
    /\ UNCHANGED <<now, events, timers, event_lock, call, returned, cancelled, KEEP_SPLIT_FILES>>

\* lines 343-384 as one step: the retry loop and combine_videos ran, with any
\* outcome, and the thread is over
ExportFinish(h) ==
    /\ thr[h].st = "attempt"
    /\ thr' = [thr EXCEPT ![h] = AfterExit(thr[h])]
    /\ UNCHANGED <<now, events, timers, event_lock, call, returned, cancelled, KEEP_SPLIT_FILES>>

\* ----------------------------------------------------------- the state machine
Next ==
    \/ Tick
    \/ \E c \in Callers : ExtendRead(c)
    \/ \E c \in Callers, i \in Ids, a \in ExtendArgs :
          ExtendBody(c, i, a.past_minutes, a.future_minutes, a.cameras)
    \/ \E c \in Callers, i \in Ids : CancelCall(c, i)
    \/ \E c \in Callers, i \in StatusArgs : StatusCall(c, i)
    \/ \E h \in Handles : TimerFire(h)
    \/ \E h \in Handles : ExportAcquire(h)
    \/ \E h \in Handles : ExportPop(h)
    \/ \E h \in Handles : ExportStart(h)
    \/ \E h \in Handles : ExportFinish(h)

Spec == Init /\ [][Next]_vars

\* ------------------------------------------------- the export, step by step
\* the windows of the jobs followed: a default request and one with arguments
JobWindows ==
    { [start_time |-> 0 - DEFAULT_PAST_MINUTES, end_time |-> DEFAULT_FUTURE_MINUTES,
       cameras |-> "all"],
      [start_time |-> 0 - 1, end_time |-> 1, cameras |-> "front"] }

\* a Timer thread right after line 296, with the window it popped
PoppedJob(identifier, window, win) ==
    [NewTimer(identifier, 0, win) EXCEPT
        !.deadline = 0, !.st = "popped", !.start_time = window.start_time,
        !.end_time = window.end_time, !.cameras = window.cameras, !.job_win = win]

\* MaxJobs callbacks have popped their windows; the store is empty again
ExportInit ==
    /\ now = MaxTime
    /\ events = EmptyDict
    /\ timers = EmptyDict
    /\ event_lock = Free
    /\ call = [c \in Callers |-> IdleCall]
    /\ returned = "none"
    /\ cancelled = {}
    /\ KEEP_SPLIT_FILES \in BOOLEAN
    /\ \E ids \in [1..MaxJobs -> Ids], ws \in [1..MaxJobs -> JobWindows] :
          thr = [h \in 1..MaxJobs |-> PoppedJob(ids[h], ws[h], h)]

ExportNext ==
    \/ \E h \in Handles : ExportStart(h)
    \/ \E h \in Handles, rc \in {0, 1} : ProcessExit(h, rc)
    \/ \E h \in Handles : LaunchError(h)
    \/ \E h \in Handles : ProcessHang(h)
    \/ \E h \in Handles : RetryWake(h)
    \/ \E h \in Handles, n \in FileCounts : CombineStart(h, n)
    \/ \E h \in Handles, o \in ConcatOutcomes : ConcatDone(h, o)
    \/ \E h \in Handles : ThreadExit(h)

ExportSpec == ExportInit /\ [][ExportNext]_vars

\* ===================================================================== claims
\* the windows created for an identifier: each extend_event arms one timer and
\* records the window it was armed for
WindowsOf(identifier) ==
    {thr[h].win : h \in {g \in Handles : thr[g].identifier = identifier}}

\* the callbacks that got past the pop guard
Exporters == {h \in Handles : thr[h].job_win # 0}

\* C1: every window is handed to the export at most once; once no entry of an
\* identifier is left, each of its windows that was not cancelled has been
\* handed to the export by exactly one callback, and a callback that found no
\* entry exported nothing.
C1_AtMostOnceExport ==
    /\ \A h1, h2 \in Exporters : thr[h1].job_win = thr[h2].job_win => h1 = h2
    /\ \A i \in Ids \ DOMAIN events :
          \A w \in WindowsOf(i) \ cancelled : \E h \in Exporters : thr[h].job_win = w
    /\ \A h \in Handles : thr[h].st = "returned" => h \notin Exporters

\* two extend_event calls on one window, one callback exported it, the other
\* callback ran and found no entry
C1_Witness ==
    \E h1, h2 \in Handles :
        /\ h1 # h2
        /\ thr[h1].win = thr[h2].win
        /\ thr[h1].job_win = thr[h1].win
        /\ thr[h2].st = "returned"

\* C2: when execute_export has popped an entry and is about to start the
\* export, the current time is at or after the end_time of the popped entry.
C2_ExportAtEndTime ==
    \A h \in Handles : thr[h].st = "popped" => now >= thr[h].end_time

\* C3: a window removed by cancel_event is never exported, also when its
\* callback was already waiting for the lock, and when cancel_event returns
\* neither events nor timers holds the identifier.
C3_CancelPreventsExport ==
    /\ [](\A h \in Exporters : thr[h].job_win \notin cancelled)
    /\ [][\A c \in Callers, i \in Ids :
            CancelCall(c, i) => (i \notin DOMAIN events' /\ i \notin DOMAIN timers')]_vars

\* the callback of a cancelled window had been dispatched; it ran after
\* cancel_event and found no entry
C3_Witness ==
    \E h \in Handles :
        /\ thr[h].st = "returned"
        /\ thr[h].win \in cancelled
        /\ thr[h].identifier \notin DOMAIN events
        /\ thr[h].identifier \notin DOMAIN timers

\* C4: status_event that finds the entry of its identifier (or, without an
\* identifier, any entry) expired removes the expired entries with their timer
\* handles, returns its result and leaves the lock free.
C4_StatusRemovesExpired ==
    [][\A c \in Callers, a \in StatusArgs :
        (StatusCall(c, a) /\ \E i \in StatusScope(a) : events[i].end_time - now <= 0)
        => /\ \A i \in StatusScope(a) :
                 events[i].end_time - now <= 0
                 => (i \notin DOMAIN events' /\ i \notin DOMAIN timers')
           /\ a # <<>> => returned' = "no_event"
           /\ call'[c].pc = "idle"
           /\ event_lock' = Free]_vars

\* the minutes extend_event uses for an optional argument
C5_Minutes(arg, default) == IF arg = <<>> THEN default ELSE arg[1]

\* C5: extend_event on an absent identifier creates start_time = now -
\* past_minutes, end_time = now + future_minutes (defaults for absent
\* arguments) and returns "started"; on a present identifier it keeps
\* start_time, sets end_time = now + future_minutes, replaces cameras and
\* returns "extended"; now is the clock value the call read.
C5_ExtendWindow ==
    [][\A c \in Callers, i \in Ids, a \in ExtendArgs :
        ExtendBody(c, i, a.past_minutes, a.future_minutes, a.cameras)
        => /\ i \in DOMAIN events'
           /\ events'[i].end_time =
                 call[c].current_time + C5_Minutes(a.future_minutes, DEFAULT_FUTURE_MINUTES)
           /\ events'[i].cameras = a.cameras
           /\ IF i \in DOMAIN events
              THEN /\ events'[i].start_time = events[i].start_time
                   /\ returned' = "extended"
              ELSE /\ events'[i].start_time =
                         call[c].current_time - C5_Minutes(a.past_minutes, DEFAULT_PAST_MINUTES)
                   /\ returned' = "started"]_vars

\* a window created with the defaults was extended by a request with
\* arguments: start_time is still now - DEFAULT_PAST_MINUTES of the first call
C5_Witness ==
    /\ returned = "extended"
    /\ \E i \in DOMAIN events :
          /\ events[i].cameras = "front"
          /\ events[i].start_time <= 0 - DEFAULT_PAST_MINUTES + MaxTime
          /\ events[i].end_time <= MaxTime + 1

\* C6: at most MAX_RETRIES attempts run; no attempt or sleep follows an exit
\* with status 0; the loop reports success exactly after an exit with status 0
\* and failure exactly after the MAX_RETRIES-th failed attempt; the sleeps so far
\* are one per failed attempt that another attempt follows, so a loop that ended
\* after k attempts slept k - 1 times.
C6_RetryPolicy ==
    \A h \in Handles :
        LET t == thr[h] IN
        /\ t.attempt <= MAX_RETRIES - 1
        /\ t.st = "attempt" => (t.returncode # 0 /\ t.sleeps = t.attempt /\ t.report = "none")
        /\ t.st = "sleep" => /\ t.returncode \notin {0, NoCode}
                             /\ t.attempt < MAX_RETRIES - 1
                             /\ t.sleeps = t.attempt + 1
                             /\ t.report = "none"
        /\ t.st = "combine" => /\ t.report \in {"success", "failure"}
                               /\ t.report = "success" <=> t.returncode = 0
                               /\ t.report = "failure" <=>
                                     (t.returncode \notin {0, NoCode}
                                      /\ t.attempt = MAX_RETRIES - 1)
                               /\ t.sleeps = t.attempt

\* two failed attempts, the third exits with status 0: success after two sleeps
C6_Witness ==
    \E h \in Handles :
        /\ thr[h].st = "combine"
        /\ thr[h].report = "success"
        /\ thr[h].attempt = 2
        /\ thr[h].sleeps = 2

\* C7: a failure to launch the archive process is handled like a non-zero
\* exit: the thread sleeps and retries, or ends the loop after the last
\* attempt, and no exception leaves execute_export.
C7_LaunchFailureRetried ==
    [][\A h \in Handles :
        LaunchError(h) => /\ thr'[h].st = AfterProcess(thr[h], 1).st
                          /\ thr'[h].sleeps = AfterProcess(thr[h], 1).sleeps
                          /\ thr'[h].error = "none"]_vars

\* C8: every execute_export that got past the pop guard invokes combine_videos
\* exactly once by the time it is over, and never while the retry loop runs.
C8_CombineAfterLoop ==
    \A h \in Handles :
        /\ thr[h].combines <= 1
        /\ thr[h].st \in {"popped", "attempt", "sleep", "hung"} => thr[h].combines = 0
        /\ thr[h].st \in {"done", "died"} => thr[h].combines = 1

\* the steps of one export thread
ThreadStep(h) ==
    \/ ExportStart(h)
    \/ \E rc \in {0, 1} : ProcessExit(h, rc)
    \/ LaunchError(h)
    \/ RetryWake(h)
    \/ \E n \in FileCounts : CombineStart(h, n)
    \/ \E o \in ConcatOutcomes : ConcatDone(h, o)
    \/ ThreadExit(h)

\* C9: an attempt whose process never exits is ended (after export_timeout)
\* and counted as failed: an execute_export that is not over can take a step.
C9_AttemptBounded ==
    \A h \in Handles : thr[h].st # "exited" => ENABLED ThreadStep(h)

\* C10: the originals of a camera group are removed only when KEEP_SPLIT_FILES
\* is false and the concatenation exited with status 0; after a failed
\* concatenation every original is still there.
C10_OriginalsKept ==
    \A h \in Handles :
        /\ thr[h].originals < thr[h].files => (~KEEP_SPLIT_FILES /\ thr[h].concat_rc = 0)
        /\ thr[h].concat_rc \notin {0, NoCode} => thr[h].originals = thr[h].files

\* C11: status_event arms and cancels no timer and changes no live entry: for
\* an identifier that is unknown or has remaining time > 0, events and timers
\* are the same before and after the call; it adds nothing to either map.
C11_StatusFrame ==
    [][\A c \in Callers, a \in StatusArgs :
        StatusCall(c, a)
        => /\ thr' = thr
           /\ DOMAIN events' \subseteq DOMAIN events
           /\ DOMAIN timers' \subseteq DOMAIN timers
           /\ \A i \in Ids :
                 (i \notin DOMAIN events \/ events[i].end_time - now > 0)
                 => /\ i \in DOMAIN events' <=> i \in DOMAIN events
                    /\ i \in DOMAIN events => events'[i] = events[i]
                    /\ i \in DOMAIN timers' <=> i \in DOMAIN timers
                    /\ i \in DOMAIN timers => timers'[i] = timers[i]]_vars

\* status_event returned the entry of a live identifier whose timer is armed
C11_Witness ==
    /\ returned = "event"
    /\ \E i \in DOMAIN events \cap DOMAIN timers :
          /\ events[i].end_time - now > 0
          /\ thr[timers[i]].st = "waiting"

\* the step by which the holder of event_lock leaves its critical section
LockHolderStep ==
    \E h \in Handles : event_lock = TimerThread(h) /\ ExportPop(h)

\* C12: event_lock is never held forever: whenever a thread holds it, that
\* thread can take the step that releases it.
C12_LockReleased ==
    event_lock # Free => ENABLED LockHolderStep

\* C13: at most one timer per identifier is pending (armed, not cancelled,
\* callback not yet called).
C13_OneLiveTimer ==
    \A h1, h2 \in Handles :
        (/\ thr[h1].st = "waiting"
         /\ thr[h2].st = "waiting"
         /\ thr[h1].identifier = thr[h2].identifier) => h1 = h2

\* C14: a thread that is past the pop guard (building the command, running an
\* attempt, sleeping, in combine_videos) does not hold event_lock; the only
\* Timer thread that holds it is the one between lines 289 and 292.
C14_NoLockAcrossExport ==
    \A h \in Handles :
        /\ thr[h].st \in {"popped", "attempt", "sleep", "hung", "combine", "ffmpeg",
                          "done", "died"}
           => event_lock # TimerThread(h)
        /\ event_lock = TimerThread(h) => thr[h].st = "locked"

\* two exports of different identifiers run at the same time, and an
\* extend_event on one of them completed meanwhile
C14_Witness ==
    \E h1, h2 \in Handles :
        /\ thr[h1].identifier # thr[h2].identifier
        /\ thr[h1].st = "attempt"
        /\ thr[h2].st = "attempt"
        /\ thr[h1].identifier \in DOMAIN events
        /\ returned = "started"

\* C15: the job of an export is the entry as it was popped: while the thread
\* holds it, start_time, end_time and cameras do not change; no cancel_event or
\* extend_event changes or stops a thread that is past the pop guard; an
\* extend_event after the pop creates a new window with its own start_time.
C15_JobSnapshot ==
    [][\A h \in Handles :
        /\ (ExportPop(h) /\ thr'[h].st = "popped")
           => /\ thr'[h].start_time = events[thr[h].identifier].start_time
              /\ thr'[h].end_time = events[thr[h].identifier].end_time
              /\ thr'[h].cameras = events[thr[h].identifier].cameras
        /\ thr[h].st = "popped"
           => \/ thr'[h] = thr[h]
              \/ ExportStart(h)
        /\ thr[h].st = "attempt" => thr'[h].st \in {"attempt", "exited"}
        /\ \A c \in Callers, i \in Ids :
              (CancelCall(c, i) /\ thr[h].st \in {"popped", "attempt"})
              => thr'[h] = thr[h]
        /\ \A c \in Callers, a \in ExtendArgs :
              (/\ ExtendBody(c, thr[h].identifier, a.past_minutes, a.future_minutes, a.cameras)
               /\ thr[h].st \in {"popped", "attempt"}
               /\ thr[h].identifier \notin DOMAIN events)
              => /\ thr'[h] = thr[h]
                 /\ returned' = "started"
                 /\ events'[thr[h].identifier].win # thr[h].job_win
                 /\ events'[thr[h].identifier].start_time =
                       call[c].current_time
                       - C5_Minutes(a.past_minutes, DEFAULT_PAST_MINUTES)]_vars

\* a thread still holds the job it popped and an extend_event on the same
\* identifier has created a new window meanwhile
C15_Witness ==
    \E h \in Handles :
        /\ thr[h].st = "popped"
        /\ thr[h].identifier \in DOMAIN events
        /\ events[thr[h].identifier].win # thr[h].job_win
        /\ events[thr[h].identifier].start_time # thr[h].start_time

\* C16: extend_event on a stored identifier never moves end_time backward.
C16_EndTimeForward ==
    [][\A c \in Callers, i \in Ids, a \in ExtendArgs :
        (ExtendBody(c, i, a.past_minutes, a.future_minutes, a.cameras)
         /\ i \in DOMAIN events)
        => events'[i].end_time >= events[i].end_time]_vars

\* C17: a step of the callback of one identifier (taking the lock, the pop, the
\* command, the export with any outcome) changes no entry and no timer handle
\* of another identifier, changes no other Timer thread, and once past the pop
\* the thread does not hold event_lock.
C17_FailureContained ==
    [][\A h \in Handles :
        (ExportAcquire(h) \/ ExportPop(h) \/ ExportStart(h) \/ ExportFinish(h))
        => /\ \A j \in Ids \ {thr[h].identifier} :
                 /\ j \in DOMAIN events' <=> j \in DOMAIN events
                 /\ j \in DOMAIN events => events'[j] = events[j]
                 /\ j \in DOMAIN timers' <=> j \in DOMAIN timers
                 /\ j \in DOMAIN timers => timers'[j] = timers[j]
           /\ \A g \in Handles \ {h} : thr'[g] = thr[g]
           /\ ~ExportAcquire(h) => event_lock' # TimerThread(h)]_vars

\* the export of one identifier is over and the window of another identifier
\* is still stored with its timer armed
C17_Witness ==
    \E h, g \in Handles :
        /\ thr[h].identifier # thr[g].identifier
        /\ thr[h].st = "exited"
        /\ thr[h].job_win # 0
        /\ thr[g].st = "waiting"
        /\ thr[g].identifier \in DOMAIN events \cap DOMAIN timers
        /\ timers[thr[g].identifier] = g

\* C18: when combine_videos has returned or raised, no manifest (filelist.txt)
\* is left in the folder.
C18_ManifestRemoved ==
    \A h \in Handles : thr[h].st \in {"done", "died"} => ~thr[h].manifest

\* C19: whenever event_lock is free, events and timers have the same keys, and
\* the handle stored for an identifier is a timer of that identifier.
C19_SameKeys ==
    event_lock = Free
    => /\ DOMAIN events = DOMAIN timers
       /\ \A i \in DOMAIN timers :
             timers[i] \in Handles /\ thr[timers[i]].identifier = i

\* the lock is free after an extend_event, a cancel_event and a pop, with a
\* window still stored
C19_Witness ==
    /\ event_lock = Free
    /\ DOMAIN events # {}
    /\ cancelled # {}
    /\ \E h \in Handles : thr[h].job_win # 0

\* ------------------------------------------------------------------ fairness
\* the steps of the Timer threads; the operating system schedules every thread
\* that can run, and the clock advances
TimerThreadStep ==
    \E h \in Handles :
        \/ TimerFire(h)
        \/ ExportAcquire(h)
        \/ ExportPop(h)
        \/ ExportStart(h)
        \/ ExportFinish(h)

FairSpec == Spec /\ WF_vars(Tick) /\ WF_vars(TimerThreadStep)

\* the window of identifier i is stored and its timer has expired or expires
\* within the time followed
Due(i) ==
    /\ i \in DOMAIN events
    /\ i \in DOMAIN timers
    /\ \/ thr[timers[i]].st \in {"dispatched", "locked"}
       \/ thr[timers[i]].st = "waiting" /\ thr[timers[i]].deadline <= MaxTime

\* C20: under fair scheduling of the clock and the Timer threads, a stored
\* window whose timer is due is eventually removed from the store (or extended
\* to a later time).
C20_NoOrphan ==
    \A i \in Ids : Due(i) ~> ~Due(i)

====
